---------------------------- MODULE Spec2Model ----------------------------
(***************************************************************************)
(* Model of the job-market-analysis scripts: the cleaning scripts          *)
(* (clean_linkedin, clean_skills_plot), the skill trend computation        *)
(* (skill_demand_evolution), the cross-dataset rankings                    *)
(* (most_common_job_titles, top_hiring_locations) and the dashboard's      *)
(* script launcher (DashBoard).                                            *)
(*                                                                         *)
(* Text is modelled as a sequence of one-character strings, so that        *)
(* split / strip / lower / substring tests are computed, not assumed.      *)
(* A missing cell (pandas NaN) is the value NaN below.                     *)
(***************************************************************************)
EXTENDS Integers, Sequences, FiniteSets, TLC

VARIABLES
    tie_order,             \* how the build's sort orders rows with equal keys
    \* skill_demand_evolution.py
    sde_pc,                \* position in the script
    sde_indeed_skills,     \* indeed_data['skills']
    sde_linkedin_skills,   \* linkedin_data['job_skills']
    indeed_skill_counts,
    linkedin_skill_counts,
    skill_trends,
    rising_skills,
    sde_csv,               \* skill_demand_trends.csv, top_rising_skills.csv
    \* clean_linkedin.py
    cl_pc,                 \* position in the script
    cl_input,              \* the rows of linkedin_no_skills.csv
    cl_df,                 \* df
    cl_error,              \* the exception that ended the script, "none" if none did
    cl_csv,                \* linkedin_no_skills_cleaned.csv
    \* clean_skills_plot.py
    csp_pc,                \* position in the script
    csp_indeed_input,      \* the rows of indeed_webscrape.csv
    csp_linkedin_input,    \* the rows of linkedin_historical.csv
    csp_indeed_data,       \* indeed_data
    indeed_data_cleaned,
    csp_linkedin_data,     \* linkedin_data
    csp_csv,               \* indeed_webscrape_cleaned.csv, linkedin_historical_cleaned.csv
    tfidf_vectorizer,      \* the fitted vocabulary, get_feature_names_out()
    indeed_tfidf_matrix,
    linkedin_tfidf_matrix,
    top_skills_idx,        \* top_skills_indeed_idx, top_skills_linkedin_idx
    top_skills_names,      \* top_skills_indeed, top_skills_linkedin
    top_skills_values,     \* top_skills_indeed_values, top_skills_linkedin_values
    csp_error,             \* the exception that ended the script, "none" if none
    \* most_common_job_titles.py, top_hiring_locations.py
    rank_pc,               \* position in the script
    rank_script,           \* which of the two scripts runs
    rank_indeed,           \* the column read from indeed_webscrape.csv
    rank_historical,       \* the column read from linkedin_historical.csv
    rank_no_skills,        \* the column read from linkedin_no_skills.csv
    all_values,            \* all_job_titles / all_locations
    filtered_locations,
    top_values,            \* top_job_titles / top_locations
    \* DashBoard.py, 'Run selected scripts'
    dash_pc,               \* position in the button's handler
    selected,              \* the scripts whose checkbox is ticked
    dash_next,             \* index in SCRIPTS of the script the loop is at
    import_result,         \* (ok, msg) of try_import_and_run for that script
    run_results,
    shown,                 \* what the main area reports per script
    dash_log               \* the runs attempted so far, in order

sde_vars == <<sde_pc, sde_indeed_skills, sde_linkedin_skills, indeed_skill_counts,
              linkedin_skill_counts, skill_trends, rising_skills, sde_csv>>

cl_vars == <<cl_pc, cl_input, cl_df, cl_error, cl_csv>>

csp_tfidf == <<tfidf_vectorizer, indeed_tfidf_matrix, linkedin_tfidf_matrix,
               top_skills_idx, top_skills_names, top_skills_values, csp_error>>

csp_vars == <<csp_pc, csp_indeed_input, csp_linkedin_input, csp_indeed_data,
              indeed_data_cleaned, csp_linkedin_data, csp_csv, csp_tfidf>>

rank_vars == <<rank_pc, rank_script, rank_indeed, rank_historical, rank_no_skills,
               all_values, filtered_locations, top_values>>

dash_vars == <<dash_pc, selected, dash_next, import_result, run_results, shown, dash_log>>

vars == <<tie_order, sde_vars, cl_vars, csp_vars, rank_vars, dash_vars>>

\* the variables an action of one script leaves alone
not_sde == <<cl_vars, csp_vars, rank_vars, dash_vars>>

not_cl == <<tie_order, sde_vars, csp_vars, rank_vars, dash_vars>>

not_csp == <<tie_order, sde_vars, cl_vars, rank_vars, dash_vars>>

not_rank == <<sde_vars, cl_vars, csp_vars, dash_vars>>

not_dash == <<tie_order, sde_vars, cl_vars, csp_vars, rank_vars>>

-----------------------------------------------------------------------------
(* Text helpers: Python str methods and pandas cell values.                *)

NaN == <<"NaN">>

UpperChars == <<"A","B","C","D","E","F","G","H","I","J","K","L","M",
                "N","O","P","Q","R","S","T","U","V","W","X","Y","Z">>

LowerChars == <<"a","b","c","d","e","f","g","h","i","j","k","l","m",
                "n","o","p","q","r","s","t","u","v","w","x","y","z">>

\* code-point order of the characters that occur in the model's texts
AsciiOrder == <<" ", "(", ")", ",", ".", "1", "2", "3">> \o UpperChars \o LowerChars

SetMin(S) == CHOOSE x \in S : \A y \in S : x <= y

SetMax(S) == CHOOSE x \in S : \A y \in S : x >= y

Range(s) == {s[i] : i \in DOMAIN s}

\* str.lower() on one character
LowerChar(c) ==
    IF \E i \in DOMAIN UpperChars : UpperChars[i] = c
    THEN LowerChars[CHOOSE i \in DOMAIN UpperChars : UpperChars[i] = c]
    ELSE c

\* str.lower()
Lower(s) == [i \in DOMAIN s |-> LowerChar(s[i])]

IsSpace(c) == c \in {" ", "\t", "\n"}

\* str.strip(): leading and trailing whitespace removed
Strip(s) ==
    LET keep == {i \in DOMAIN s : ~IsSpace(s[i])}
    IN  IF keep = {} THEN <<>> ELSE SubSeq(s, SetMin(keep), SetMax(keep))

\* str.split(','): one field more than there are commas, empty fields kept
RECURSIVE SplitComma(_)
SplitComma(s) ==
    LET commas == {i \in DOMAIN s : s[i] = ","}
    IN  IF commas = {} THEN <<s>>
        ELSE LET i == SetMin(commas)
             IN  <<SubSeq(s, 1, i - 1)>> \o SplitComma(SubSeq(s, i + 1, Len(s)))

\* t occurs in s at position i (1-based)
OccursAt(s, t, i) == i >= 1 /\ i + Len(t) - 1 <= Len(s) /\ SubSeq(s, i, i + Len(t) - 1) = t

\* Python's  t in s
Contains(s, t) == \E i \in 1..(Len(s) + 1) : OccursAt(s, t, i)

CharCode(c) == CHOOSE i \in DOMAIN AsciiOrder : AsciiOrder[i] = c

\* Python's  s < t  on str (code-point lexicographic order)
RECURSIVE StrLess(_, _)
StrLess(s, t) ==
    IF t = <<>> THEN FALSE
    ELSE IF s = <<>> THEN TRUE
    ELSE IF s[1] = t[1] THEN StrLess(Tail(s), Tail(t))
    ELSE CharCode(s[1]) < CharCode(t[1])

\* Series.dropna(): the non-missing cells, in order
DropNa(col) == SelectSeq(col, LAMBDA v : v # NaN)

RECURSIVE Flatten(_)
Flatten(ss) == IF ss = <<>> THEN <<>> ELSE Head(ss) \o Flatten(Tail(ss))

\* Series.head(n)
HeadRows(s, n) == SubSeq(s, 1, IF Len(s) < n THEN Len(s) ELSE n)

\* all sequences over S of length at most n
SeqsUpTo(S, n) == UNION {[1..k -> S] : k \in 0..n}

-----------------------------------------------------------------------------
(* pandas value_counts: a hash count in first-seen order, then a           *)
(* descending sort by count.  The sort is numpy's default 'quicksort',     *)
(* which is not stable: how equal counts are ordered is a property of the  *)
(* build.  TieOrders are the outcomes the model draws from.                *)

TieOrders == {"first_seen", "last_seen"}

\* the distinct values of vals in first-seen order, with their counts
HashCounts(vals) ==
    LET firsts == {i \in DOMAIN vals : \A j \in 1..(i - 1) : vals[j] # vals[i]}
        Nth(k) == CHOOSE i \in firsts : Cardinality({j \in firsts : j < i}) = k - 1
    IN  [k \in 1..Cardinality(firsts) |->
            [value |-> vals[Nth(k)],
             count |-> Cardinality({j \in DOMAIN vals : vals[j] = vals[Nth(k)]})]]

\* rows ordered by Before, a strict total order on the positions of rows
SortRows(rows, Before(_, _)) ==
    LET Rank(i) == 1 + Cardinality({j \in DOMAIN rows : Before(j, i)})
    IN  [k \in DOMAIN rows |-> rows[CHOOSE i \in DOMAIN rows : Rank(i) = k]]

\* position i goes before position j when the keys are equal
TieBefore(tie, i, j) == IF tie = "first_seen" THEN i < j ELSE i > j

\* Series.value_counts(): NaN dropped, descending by count
ValueCounts(vals, tie) ==
    LET hc == HashCounts(DropNa(vals))
        Before(i, j) == \/ hc[i].count > hc[j].count
                        \/ hc[i].count = hc[j].count /\ TieBefore(tie, i, j)
    IN  SortRows(hc, Before)

-----------------------------------------------------------------------------
(* skill_demand_evolution.py                                               *)

exclude_terms == <<
    <<"i","n","c",".">>,
    <<"l","a","b","s">>,
    <<"c","o","r","p">>,
    <<"c","o","m","p","a","n","y">>,
    <<"u","n","i","v","e","r","s","i","t","y">>,
    <<"r","e","s","e","a","r","c","h">>,
    <<"t","e","c","h","n","o","l","o","g","i","e","s">>,
    <<"m","a","n","a","g","e","r">>,
    <<"d","i","r","e","c","t","o","r">> >>

\* line 17: the stripped, lowercased fields of one skills string
skill_list(skills) ==
    LET parts == SplitComma(skills)
    IN  [i \in DOMAIN parts |-> Lower(Strip(parts[i]))]

IsExcluded(skill) == \E k \in DOMAIN exclude_terms : Contains(skill, exclude_terms[k])

\* line 19
filtered_skills(skills) == SelectSeq(skill_list(skills), LAMBDA skill : ~IsExcluded(skill))

\* lines 14-20: the tokens of every non-missing row, in row order
all_skills(skill_column) ==
    LET col == DropNa(skill_column)
    IN  Flatten([i \in DOMAIN col |-> filtered_skills(col[i])])

\* lines 12-21
extract_skills(skill_column, tie) == ValueCounts(all_skills(skill_column), tie)

\* the count of label in a value_counts result, 0 when absent (fillna(0))
CountOf(counts, label) ==
    IF \E i \in DOMAIN counts : counts[i].value = label
    THEN counts[CHOOSE i \in DOMAIN counts : counts[i].value = label].count
    ELSE 0

Labels(counts) == {counts[i].value : i \in DOMAIN counts}

\* the zero guard left out
Replace0With1_NoGuard(x) == x

\* line 35: Series.replace(0, 1) on one cell
Replace0With1(x) == IF x = 0 THEN 1 ELSE x

\* lines 34-35: '% Change' as the exact fraction num/den
PercentChange(historical, recent) ==
    [num |-> (recent - historical) * 100, den |-> Replace0With1(historical)]

\* lines 28-35: one row per label of the union of both indexes, the union
\* sorted as pandas sorts the joined index
make_skill_trends(linkedin_counts, indeed_counts) ==
    LET labels == Labels(linkedin_counts) \cup Labels(indeed_counts)
        Row(l) == [label      |-> l,
                   historical |-> CountOf(linkedin_counts, l),
                   recent     |-> CountOf(indeed_counts, l),
                   change     |-> PercentChange(CountOf(linkedin_counts, l),
                                                CountOf(indeed_counts, l))]
        Nth(k) == CHOOSE l \in labels : Cardinality({m \in labels : StrLess(m, l)}) = k - 1
    IN  [k \in 1..Cardinality(labels) |-> Row(Nth(k))]

\* a.num/a.den > b.num/b.den, the denominators being counts
FracGreater(a, b) == a.num * b.den > b.num * a.den

FracEqual(a, b) == a.num * b.den = b.num * a.den

HeadN == 10

\* line 38: sort_values('% Change', ascending=False).head(10)
make_rising_skills(trends, tie) ==
    LET Before(i, j) == \/ FracGreater(trends[i].change, trends[j].change)
                        \/ /\ FracEqual(trends[i].change, trends[j].change)
                           /\ TieBefore(tie, i, j)
    IN  HeadRows(SortRows(trends, Before), HeadN)

EndsWithPhrase(s, t) == Len(t) <= Len(s) /\ SubSeq(s, Len(s) - Len(t) + 1, Len(s)) = t

Required == <<"(","r","e","q","u","i","r","e","d",")">>

MatchingQualification ==
    <<"m","a","t","c","h","i","n","g"," ","q","u","a","l","i","f","i","c","a","t","i","o","n">>

\* the start of the leftmost match of  \s*phrase  at or after position from,
\* 0 when there is none
MatchStart(s, phrase, from) ==
    LET starts == {i \in from..Len(s) :
                      \E p \in i..Len(s) :
                          /\ OccursAt(s, phrase, p)
                          /\ \A q \in i..(p - 1) : IsSpace(s[q])}
    IN  IF starts = {} THEN 0 ELSE SetMin(starts)

\* str.replace(r'\s*phrase', '', regex=True): every non-overlapping match,
\* scanning left to right, is deleted
RECURSIVE RegexRemove(_, _)
RegexRemove(s, phrase) ==
    LET i == MatchStart(s, phrase, 1)
    IN  IF i = 0 THEN s
        ELSE LET p == SetMin({q \in i..Len(s) : OccursAt(s, phrase, q)})
             IN  SubSeq(s, 1, i - 1)
                   \o RegexRemove(SubSeq(s, p + Len(phrase), Len(s)), phrase)

\* a phrase removed only where it ends the text
RemoveTrailing(s, phrase) ==
    IF EndsWithPhrase(s, phrase) THEN Strip(SubSeq(s, 1, Len(s) - Len(phrase))) ELSE s

\* the cleanup anchored at the end of the label
clean_label_TrailingOnly(label) ==
    RemoveTrailing(RemoveTrailing(label, Required), MatchingQualification)

\* lines 41-42 on one index label
clean_label(label) ==
    Strip(RegexRemove(Strip(RegexRemove(label, Required)), MatchingQualification))

-----------------------------------------------------------------------------
(* The inputs of skill_demand_evolution: the 'skills' column of            *)
(* indeed_webscrape_cleaned.csv and the 'job_skills' column of             *)
(* linkedin_historical_cleaned.csv.                                        *)

MaxIndeedRows == 2

MaxLinkedinRows == 1

IndeedSkillCells == {
    <<"P","y","t","h","o","n",","," ","S","Q","L">>,
    <<"p","y","t","h","o","n",","," ","e","x","c","e","l">>,
    <<"a",",",",","b">>,
    <<"S","t","a","n","f","o","r","d"," ","U","n","i","v","e","r","s","i","t","y",","," ","e","x","c","e","l"," ","m","a","t","c","h","i","n","g"," ","q","u","a","l","i","f","i","c","a","t","i","o","n">>,
    <<"s","q","l"," ","(","r","e","q","u","i","r","e","d",")",","," ","s","q","l"," ","(","r","e","q","u","i","r","e","d",")"," ","a","d","v","a","n","c","e","d">>,
    <<"s",",","s",",","s",",","s",",","s">> }

LinkedinSkillCells == {
    NaN,
    <<"s","q","l">>,
    <<"S","Q","L",","," ","e","x","c","e","l",","," ","R","e","s","e","a","r","c","h"," ","L","a","b","s">> }

NonEmptySeqs(S, n) == SeqsUpTo(S, n) \ {<<>>}

\* an output file: what an earlier run left, or the rows this run wrote
OldFile == [state |-> "previous run", rows |-> <<>>]

Written(rows) == [state |-> "written", rows |-> rows]


SdeIdle ==
    /\ sde_pc = "idle"
    /\ sde_indeed_skills = <<>>
    /\ sde_linkedin_skills = <<>>
    /\ indeed_skill_counts = <<>>
    /\ linkedin_skill_counts = <<>>
    /\ skill_trends = <<>>
    /\ rising_skills = <<>>
    /\ sde_csv = [skill_demand_trends |-> OldFile, top_rising_skills |-> OldFile]

\* lines 5-6: both cleaned CSVs read
SdeInit ==
    /\ sde_pc = "loaded"
    /\ sde_indeed_skills \in NonEmptySeqs(IndeedSkillCells, MaxIndeedRows)
    /\ sde_linkedin_skills \in NonEmptySeqs(LinkedinSkillCells, MaxLinkedinRows)
    /\ indeed_skill_counts = <<>>
    /\ linkedin_skill_counts = <<>>
    /\ skill_trends = <<>>
    /\ rising_skills = <<>>
    /\ sde_csv = [skill_demand_trends |-> OldFile, top_rising_skills |-> OldFile]

\* lines 24-25
SdeExtractSkills ==
    /\ sde_pc = "loaded"
    /\ indeed_skill_counts' = extract_skills(sde_indeed_skills, tie_order)
    /\ linkedin_skill_counts' = extract_skills(sde_linkedin_skills, tie_order)
    /\ sde_pc' = "counted"
    /\ UNCHANGED <<tie_order, sde_indeed_skills, sde_linkedin_skills, skill_trends,
                   rising_skills, sde_csv>>
    /\ UNCHANGED not_sde

\* lines 28-35
SdeSkillTrends ==
    /\ sde_pc = "counted"
    /\ skill_trends' = make_skill_trends(linkedin_skill_counts, indeed_skill_counts)
    /\ sde_pc' = "trended"
    /\ UNCHANGED <<tie_order, sde_indeed_skills, sde_linkedin_skills, indeed_skill_counts,
                   linkedin_skill_counts, rising_skills, sde_csv>>
    /\ UNCHANGED not_sde

\* line 38
SdeRisingSkills ==
    /\ sde_pc = "trended"
    /\ rising_skills' = make_rising_skills(skill_trends, tie_order)
    /\ sde_pc' = "ranked"
    /\ UNCHANGED <<tie_order, sde_indeed_skills, sde_linkedin_skills, indeed_skill_counts,
                   linkedin_skill_counts, skill_trends, sde_csv>>
    /\ UNCHANGED not_sde

\* lines 41-42: the index labels of rising_skills rewritten
SdeCleanLabels ==
    /\ sde_pc = "ranked"
    /\ rising_skills' = [i \in DOMAIN rising_skills |->
                            [rising_skills[i] EXCEPT !.label = clean_label(@)]]
    /\ sde_pc' = "labelled"
    /\ UNCHANGED <<tie_order, sde_indeed_skills, sde_linkedin_skills, indeed_skill_counts,
                   linkedin_skill_counts, skill_trends, sde_csv>>
    /\ UNCHANGED not_sde

\* lines 46-56: the plot, then both tables written
SdeSave ==
    /\ sde_pc = "labelled"
    /\ sde_csv' = [skill_demand_trends |-> Written(skill_trends),
                   top_rising_skills   |-> Written(rising_skills)]
    /\ sde_pc' = "done"
    /\ UNCHANGED <<tie_order, sde_indeed_skills, sde_linkedin_skills, indeed_skill_counts,
                   linkedin_skill_counts, skill_trends, rising_skills>>
    /\ UNCHANGED not_sde



-----------------------------------------------------------------------------
(* clean_linkedin.py.  A cell of linkedin_no_skills.csv is a Python value: *)
(* a str holding the cell's text, or a float (NaN for a missing cell).     *)

PyStr(text) == [type |-> "str", v |-> text]

PyInt(text) == [type |-> "int", v |-> text]

PyDict(text) == [type |-> "dict", v |-> text]

PyList(text) == [type |-> "list", v |-> text]

PyFloat(text) == [type |-> "float", v |-> text]

None == [type |-> "NoneType", v |-> "None"]

\* the texts json.loads is given in the model
JsonTexts == {
    "not json",
    "[1, 2]",
    "5",
    "\"abc\"",
    "null",
    "{}",
    "{\"datePosted\": \"2021-03-05\"}",
    "{\"datePosted\": \"2021-04-17T08:00:00.000Z\"}",
    "{\"datePosted\": \"soon\"}",
    "{\"datePosted\": \"\"}",
    "{\"datePosted\": 5}",
    "{\"datePosted\": {}}",
    "{\"datePosted\": null}" }

\* json.loads on a str: the parsed value, or JSONDecodeError
json_loads(text) ==
    CASE text = "not json" -> [raised |-> "JSONDecodeError", value |-> None]
      [] text = "[1, 2]"   -> [raised |-> "none", value |-> PyList("[1, 2]")]
      [] text = "5"        -> [raised |-> "none", value |-> PyInt("5")]
      [] text = "\"abc\""  -> [raised |-> "none", value |-> PyStr("abc")]
      [] text = "null"     -> [raised |-> "none", value |-> None]
      [] OTHER             -> [raised |-> "none", value |-> PyDict(text)]

\* 'datePosted' in data, for a parsed object
HasDatePosted(data) == data.type = "dict" /\ data.v # "{}"

\* data["datePosted"], for a parsed object that has the key
DatePostedOf(data) ==
    CASE data.v = "{\"datePosted\": \"2021-03-05\"}" -> PyStr("2021-03-05")
      [] data.v = "{\"datePosted\": \"2021-04-17T08:00:00.000Z\"}"
                                                     -> PyStr("2021-04-17T08:00:00.000Z")
      [] data.v = "{\"datePosted\": \"soon\"}"       -> PyStr("soon")
      [] data.v = "{\"datePosted\": \"\"}"           -> PyStr("")
      [] data.v = "{\"datePosted\": 5}"              -> PyInt("5")
      [] data.v = "{\"datePosted\": {}}"             -> PyDict("{}")
      [] data.v = "{\"datePosted\": null}"           -> None

\* lines 17-22: json.loads raises TypeError on a value that is no str and
\* JSONDecodeError on text that is no JSON, both caught; data.get on a parsed
\* value that is no dict raises AttributeError, which is not caught
extract_date(json_str) ==
    IF json_str.type # "str" THEN [raised |-> "none", value |-> None]
    ELSE LET data == json_loads(json_str.v)
         IN  IF data.raised # "none" THEN [raised |-> "none", value |-> None]
             ELSE IF data.value.type # "dict"
                  THEN [raised |-> "AttributeError", value |-> None]
             ELSE IF HasDatePosted(data.value)
                  THEN [raised |-> "none", value |-> DatePostedOf(data.value)]
                  ELSE [raised |-> "none", value |-> None]

\* what pd.to_datetime reads as a date (forecast_job_postings.py line 17)
IsoDateTexts == {"2021-03-05", "2021-04-17T08:00:00.000Z"}

IsIsoDate(value) == value.type = "str" /\ value.v \in IsoDateTexts

\* hash(value) raises TypeError
Unhashable(value) == value.type \in {"dict", "list"}

\* drop_duplicates left out
drop_duplicates_KeepAll(rows) == rows

\* DataFrame.drop_duplicates(): the first of every run of equal rows is kept
drop_duplicates(rows) ==
    LET firsts == {i \in DOMAIN rows : \A j \in 1..(i - 1) : rows[j] # rows[i]}
        Nth(k) == CHOOSE i \in firsts : Cardinality({j \in firsts : j < i}) = k - 1
    IN  [k \in 1..Cardinality(firsts) |-> rows[Nth(k)]]

MaxNoSkillsRows == 2

TitleCells == {PyStr("Data Analyst"), PyStr("Data Engineer")}

ContextCells == {PyStr(t) : t \in JsonTexts} \cup {PyFloat("nan"), PyFloat("1.5")}

NoSkillsRows == [title : TitleCells, context : ContextCells]

ClIdle ==
    /\ cl_pc = "idle"
    /\ cl_input = <<>>
    /\ cl_df = <<>>
    /\ cl_error = "none"
    /\ cl_csv = OldFile

\* line 14
ClInit ==
    /\ cl_pc = "loaded"
    /\ cl_input \in NonEmptySeqs(NoSkillsRows, MaxNoSkillsRows)
    /\ cl_df = cl_input
    /\ cl_error = "none"
    /\ cl_csv = OldFile

\* line 25: the script ends with the exception when extract_date raises
ClExtractDate ==
    /\ cl_pc = "loaded"
    /\ LET res == [i \in DOMAIN cl_df |-> extract_date(cl_df[i].context)]
           bad == {i \in DOMAIN res : res[i].raised # "none"}
       IN  IF bad # {}
           THEN /\ cl_error' = res[SetMin(bad)].raised
                /\ cl_pc' = "aborted"
                /\ UNCHANGED cl_df
           ELSE /\ cl_df' = [i \in DOMAIN cl_df |->
                               [title      |-> cl_df[i].title,
                                context    |-> cl_df[i].context,
                                datePosted |-> res[i].value]]
                /\ cl_pc' = "extracted"
                /\ UNCHANGED cl_error
    /\ UNCHANGED <<cl_input, cl_csv>>
    /\ UNCHANGED not_cl

\* line 28
ClDropNa ==
    /\ cl_pc = "extracted"
    /\ cl_df' = SelectSeq(cl_df, LAMBDA row : row.datePosted # None)
    /\ cl_pc' = "dropped"
    /\ UNCHANGED <<cl_input, cl_error, cl_csv>>
    /\ UNCHANGED not_cl

\* line 31: the rows are hashed, which raises on a dict or list cell
ClDropDuplicates ==
    /\ cl_pc = "dropped"
    /\ IF \E i \in DOMAIN cl_df : Unhashable(cl_df[i].datePosted)
       THEN /\ cl_error' = "TypeError"
            /\ cl_pc' = "aborted"
            /\ UNCHANGED cl_df
       ELSE /\ cl_df' = drop_duplicates(cl_df)
            /\ cl_pc' = "deduped"
            /\ UNCHANGED cl_error
    /\ UNCHANGED <<cl_input, cl_csv>>
    /\ UNCHANGED not_cl

\* line 34
ClSave ==
    /\ cl_pc = "deduped"
    /\ cl_csv' = Written(cl_df)
    /\ cl_pc' = "done"
    /\ UNCHANGED <<cl_input, cl_df, cl_error>>
    /\ UNCHANGED not_cl

-----------------------------------------------------------------------------
(* clean_skills_plot.py.  Cells are texts (character sequences) or NaN.    *)

\* str.join: the texts of parts with sep between them
RECURSIVE Join(_, _)
Join(parts, sep) ==
    IF parts = <<>> THEN <<>>
    ELSE IF Len(parts) = 1 THEN parts[1]
    ELSE parts[1] \o sep \o Join(Tail(parts), sep)

\* Series.unique(): the distinct cells in first-seen order
Unique(cells) ==
    LET firsts == {i \in DOMAIN cells : \A j \in 1..(i - 1) : cells[j] # cells[i]}
        Nth(k) == CHOOSE i \in firsts : Cardinality({j \in firsts : j < i}) = k - 1
    IN  [k \in 1..Cardinality(firsts) |-> cells[Nth(k)]]

\* the 'first' aggregation: the first cell that is not missing, NaN if none
First(cells) == IF DropNa(cells) = <<>> THEN NaN ELSE DropNa(cells)[1]

CommaSpace == <<",", " ">>

\* line 20: ', '.join(x.dropna().unique()), the distinct cells of the group
join_unique_skills(cells) == Join(Unique(DropNa(cells)), CommaSpace)

\* lines 11-12: NaN skills filled with '', rows with blank skills removed
filter_blank_skills(rows) ==
    LET filled == [i \in DOMAIN rows |->
                     [rows[i] EXCEPT !.skills = IF @ = NaN THEN <<>> ELSE @]]
    IN  SelectSeq(filled, LAMBDA row : Strip(row.skills) # <<>>)

Column(rows, Cell(_)) == [i \in DOMAIN rows |-> Cell(rows[i])]

\* lines 15-21: groupby('job_title-href') drops the rows whose key is
\* missing and yields the groups in key order
group_indeed(rows) ==
    LET keys     == {rows[i].href : i \in DOMAIN rows} \ {NaN}
        Group(k) == SelectSeq(rows, LAMBDA row : row.href = k)
        Nth(n)   == CHOOSE k \in keys : Cardinality({m \in keys : StrLess(m, k)}) = n - 1
        Agg(k)   == [href      |-> k,
                     job_title |-> First(Column(Group(k), LAMBDA row : row.job_title)),
                     company   |-> First(Column(Group(k), LAMBDA row : row.company)),
                     skills    |-> join_unique_skills(Column(Group(k), LAMBDA row : row.skills))]
    IN  [n \in 1..Cardinality(keys) |-> Agg(Nth(n))]

NoSummary == <<"N","o"," ","s","u","m","m","a","r","y"," ","a","v","a","i","l","a","b","l","e">>

\* line 28
fill_job_summary(rows) ==
    [i \in DOMAIN rows |-> [rows[i] EXCEPT !.job_summary = IF @ = NaN THEN NoSummary ELSE @]]

\* line 29
drop_missing_critical(rows) ==
    SelectSeq(rows, LAMBDA row : row.job_title # NaN /\ row.company # NaN /\ row.job_skills # NaN)

\* sklearn's TfidfVectorizer(stop_words='english', max_features=10), line 41.
\* Weights are kept in thousandths, rounded down.

Digits == {"1", "2", "3"}

\* \w of the default token_pattern r"(?u)\b\w\w+\b"
IsWordChar(c) == c \in Range(UpperChars) \cup Range(LowerChars) \cup Digits \cup {"_"}

\* the words of 'english' that the model's texts can hold
StopWords == {<<"a","n","d">>, <<"o","f">>, <<"t","h","e">>, <<"n","o">>, <<"w","i","t","h">>}

\* the analyzer: lowercase, maximal runs of two or more word characters, in
\* order, stop words removed
analyze(doc) ==
    LET s       == Lower(doc)
        starts  == {i \in DOMAIN s : IsWordChar(s[i]) /\ (i = 1 \/ ~IsWordChar(s[i - 1]))}
        EndOf(i) == SetMin({j \in i..Len(s) : j = Len(s) \/ ~IsWordChar(s[j + 1])})
        Nth(k)  == CHOOSE i \in starts : Cardinality({j \in starts : j < i}) = k - 1
        words   == [k \in 1..Cardinality(starts) |-> SubSeq(s, Nth(k), EndOf(Nth(k)))]
    IN  SelectSeq(words, LAMBDA w : Len(w) >= 2 /\ w \notin StopWords)

\* the terms in sorted order
SortedTerms(terms) ==
    LET Nth(n) == CHOOSE t \in terms : Cardinality({u \in terms : StrLess(u, t)}) = n - 1
    IN  [n \in 1..Cardinality(terms) |-> Nth(n)]

\* occurrences of term in the analyzed document
TermCount(tokens, term) == Cardinality({i \in DOMAIN tokens : tokens[i] = term})

RECURSIVE SumSeq(_)
SumSeq(s) == IF s = <<>> THEN 0 ELSE Head(s) + SumSeq(Tail(s))

max_features == 10

\* the analyzed documents
Tokenized(docs) == [d \in DOMAIN docs |-> analyze(docs[d])]

AllTerms(tokens) == UNION {Range(tokens[d]) : d \in DOMAIN tokens}

\* occurrences of term in the corpus
CorpusCount(tokens, term) == SumSeq([d \in DOMAIN tokens |-> TermCount(tokens[d], term)])

TermFrequencies(tokens, all) == [i \in DOMAIN all |-> CorpusCount(tokens, all[i])]

\* (-tfs).argsort()[:max_features], the kept terms in sorted order
TopTerms(all, tfs, tie) ==
    LET Before(i, j) == \/ tfs[i] > tfs[j]
                        \/ tfs[i] = tfs[j] /\ TieBefore(tie, i, j)
        kept == {i \in DOMAIN all :
                   Cardinality({j \in DOMAIN all : Before(j, i)}) < max_features}
    IN  SortedTerms({all[i] : i \in kept})

LimitTerms(tokens, all, tie) == TopTerms(all, TermFrequencies(tokens, all), tie)

\* CountVectorizer._limit_features: of the sorted terms of the corpus, the
\* max_features terms of highest corpus frequency
limit_features(tokens, tie) == LimitTerms(tokens, SortedTerms(AllTerms(tokens)), tie)

\* 1000 * ln(k) for k = 1..8, rounded
LnMilli == <<0, 693, 1099, 1386, 1609, 1792, 1946, 2079>>

\* smooth idf: ln((1 + n) / (1 + df)) + 1
idf(n, df) == LnMilli[1 + n] - LnMilli[1 + df] + 1000

\* the integer square root of x, between lo and hi
RECURSIVE Bisect(_, _, _)
Bisect(x, lo, hi) ==
    IF hi - lo <= 1 THEN lo
    ELSE LET mid == (lo + hi) \div 2
         IN  IF mid * mid <= x THEN Bisect(x, mid, hi) ELSE Bisect(x, lo, mid)

ISqrt(x) == Bisect(x, 0, 46340)

\* documents of the corpus that hold term
DocFreq(tokens, term) == Cardinality({d \in DOMAIN tokens : TermCount(tokens[d], term) > 0})

Idfs(tokens, vocabulary) ==
    [i \in DOMAIN vocabulary |-> idf(Len(tokens), DocFreq(tokens, vocabulary[i]))]

\* tf * idf of one document
RawRow(doc_tokens, vocabulary, idfs) ==
    [i \in DOMAIN vocabulary |-> TermCount(doc_tokens, vocabulary[i]) * idfs[i]]

Normalize(raw, norm) ==
    [i \in DOMAIN raw |-> IF norm = 0 THEN 0 ELSE (raw[i] * 1000) \div norm]

\* norm='l2'
L2Row(raw) == Normalize(raw, ISqrt(SumSeq([i \in DOMAIN raw |-> raw[i] * raw[i]])))

Weights(tokens, vocabulary, idfs) ==
    [d \in DOMAIN tokens |-> L2Row(RawRow(tokens[d], vocabulary, idfs))]

\* fit_transform raises ValueError('empty vocabulary ...') when the
\* documents hold no term
Fitted(tokens, vocabulary) ==
    IF vocabulary = <<>>
    THEN [raised |-> "ValueError", vocabulary |-> <<>>, matrix |-> <<>>]
    ELSE [raised |-> "none", vocabulary |-> vocabulary,
          matrix |-> Weights(tokens, vocabulary, Idfs(tokens, vocabulary))]

FitTokens(tokens, tie) == Fitted(tokens, limit_features(tokens, tie))

\* lines 44, 47: the vocabulary and the matrix of l2-normalised tf * idf
\* weights, one row per document
fit_transform(docs, tie) == FitTokens(Tokenized(docs), tie)

\* [-10:][::-1] of an ascending argsort
LastTenReversed(ascending) ==
    LET n    == Len(ascending)
        from == IF n > 10 THEN n - 9 ELSE 1
    IN  [k \in 1..(n - from + 1) |-> ascending[n + 1 - k]]

\* lines 52-53: sums.argsort()[-10:][::-1], the columns of the 10 highest
\* sums, highest first; argsort's default kind is not stable
top_idx(sums, tie) ==
    LET Before(i, j) == \/ sums[i] < sums[j]
                        \/ sums[i] = sums[j] /\ TieBefore(tie, i, j)
    IN  LastTenReversed(SortRows([i \in DOMAIN sums |-> i], Before))

MaxIndeedRawRows == 2

MaxHistoricalRows == 2

IndeedRawRows ==
    [href      : {NaN, <<"u","1">>, <<"u","2">>},
     job_title : {<<"A","n","a","l","y","s","t">>},
     company   : {NaN, <<"A","c","m","e">>},
     skills    : {NaN, <<" ">>,
                  <<"P","y","t","h","o","n",","," ","S","Q","L">>,
                  <<"S","Q","L",","," ","E","x","c","e","l">>}]

HistoricalRows ==
    [job_title   : {NaN, <<"A","n","a","l","y","s","t">>},
     company     : {<<"A","c","m","e">>},
     job_skills  : {NaN, <<"s","q","l">>, <<"J","a","v","a",","," ","P","y","t","h","o","n">>},
     job_summary : {NaN, NoSummary}]

\* the table held fixed while the other one is varied
SomeIndeedTable ==
    <<[href |-> <<"u","1">>, job_title |-> <<"A","n","a","l","y","s","t">>,
       company |-> <<"A","c","m","e">>, skills |-> <<"S","Q","L",","," ","E","x","c","e","l">>]>>

SomeHistoricalTable ==
    <<[job_title |-> <<"A","n","a","l","y","s","t">>, company |-> <<"A","c","m","e">>,
       job_skills |-> <<"s","q","l">>, job_summary |-> NaN]>>

NoTopSkills == [indeed |-> <<>>, linkedin |-> <<>>]

CspIdle ==
    /\ csp_pc = "idle"
    /\ csp_indeed_input = <<>>
    /\ csp_linkedin_input = <<>>
    /\ csp_indeed_data = <<>>
    /\ indeed_data_cleaned = <<>>
    /\ csp_linkedin_data = <<>>
    /\ csp_csv = [indeed_webscrape_cleaned |-> OldFile, linkedin_historical_cleaned |-> OldFile]
    /\ tfidf_vectorizer = <<>>
    /\ indeed_tfidf_matrix = <<>>
    /\ linkedin_tfidf_matrix = <<>>
    /\ top_skills_idx = NoTopSkills
    /\ top_skills_names = NoTopSkills
    /\ top_skills_values = NoTopSkills
    /\ csp_error = "none"

\* lines 6-7
CspInit ==
    /\ csp_pc = "loaded"
    /\ \/ /\ csp_indeed_input \in NonEmptySeqs(IndeedRawRows, MaxIndeedRawRows)
          /\ csp_linkedin_input = SomeHistoricalTable
       \/ /\ csp_indeed_input = SomeIndeedTable
          /\ csp_linkedin_input \in NonEmptySeqs(HistoricalRows, MaxHistoricalRows)
    /\ csp_indeed_data = csp_indeed_input
    /\ csp_linkedin_data = csp_linkedin_input
    /\ indeed_data_cleaned = <<>>
    /\ csp_csv = [indeed_webscrape_cleaned |-> OldFile, linkedin_historical_cleaned |-> OldFile]
    /\ tfidf_vectorizer = <<>>
    /\ indeed_tfidf_matrix = <<>>
    /\ linkedin_tfidf_matrix = <<>>
    /\ top_skills_idx = NoTopSkills
    /\ top_skills_names = NoTopSkills
    /\ top_skills_values = NoTopSkills
    /\ csp_error = "none"

\* lines 11-12
CspFilterBlank ==
    /\ csp_pc = "loaded"
    /\ csp_indeed_data' = filter_blank_skills(csp_indeed_data)
    /\ csp_pc' = "filtered"
    /\ UNCHANGED <<csp_indeed_input, csp_linkedin_input, indeed_data_cleaned,
                   csp_linkedin_data, csp_csv>>
    /\ UNCHANGED csp_tfidf
    /\ UNCHANGED not_csp

\* lines 15-21
CspGroupIndeed ==
    /\ csp_pc = "filtered"
    /\ indeed_data_cleaned' = group_indeed(csp_indeed_data)
    /\ csp_pc' = "grouped"
    /\ UNCHANGED <<csp_indeed_input, csp_linkedin_input, csp_indeed_data,
                   csp_linkedin_data, csp_csv>>
    /\ UNCHANGED csp_tfidf
    /\ UNCHANGED not_csp

\* line 24
CspSaveIndeed ==
    /\ csp_pc = "grouped"
    /\ csp_csv' = [csp_csv EXCEPT !.indeed_webscrape_cleaned = Written(indeed_data_cleaned)]
    /\ csp_pc' = "indeed_saved"
    /\ UNCHANGED <<csp_indeed_input, csp_linkedin_input, csp_indeed_data,
                   indeed_data_cleaned, csp_linkedin_data>>
    /\ UNCHANGED csp_tfidf
    /\ UNCHANGED not_csp

\* lines 27-29
CspCleanLinkedin ==
    /\ csp_pc = "indeed_saved"
    /\ csp_linkedin_data' =
          drop_missing_critical(fill_job_summary(drop_duplicates(csp_linkedin_data)))
    /\ csp_pc' = "linkedin_cleaned"
    /\ UNCHANGED <<csp_indeed_input, csp_linkedin_input, csp_indeed_data,
                   indeed_data_cleaned, csp_csv>>
    /\ UNCHANGED csp_tfidf
    /\ UNCHANGED not_csp

csp_tables == <<csp_indeed_input, csp_linkedin_input, csp_indeed_data,
                indeed_data_cleaned, csp_linkedin_data>>

\* line 44: fit_transform on the Indeed corpus
CspFitIndeed ==
    /\ csp_pc = "linkedin_cleaned"
    /\ \E fitted \in {fit_transform(Column(indeed_data_cleaned, LAMBDA row : row.skills), tie_order)} :
           IF fitted.raised # "none"
           THEN /\ csp_error' = fitted.raised
                /\ csp_pc' = "aborted"
                /\ UNCHANGED <<tfidf_vectorizer, indeed_tfidf_matrix>>
           ELSE /\ tfidf_vectorizer' = fitted.vocabulary
                /\ indeed_tfidf_matrix' = fitted.matrix
                /\ csp_pc' = "indeed_fitted"
                /\ UNCHANGED csp_error
    /\ UNCHANGED <<linkedin_tfidf_matrix, top_skills_idx, top_skills_names, top_skills_values>>
    /\ UNCHANGED <<csp_tables, csp_csv>>
    /\ UNCHANGED not_csp

\* line 47: the same vectorizer fitted again, on the LinkedIn corpus
CspFitLinkedin ==
    /\ csp_pc = "indeed_fitted"
    /\ \E fitted \in {fit_transform(Column(csp_linkedin_data, LAMBDA row : row.job_skills), tie_order)} :
           IF fitted.raised # "none"
           THEN /\ csp_error' = fitted.raised
                /\ csp_pc' = "aborted"
                /\ UNCHANGED <<tfidf_vectorizer, linkedin_tfidf_matrix>>
           ELSE /\ tfidf_vectorizer' = fitted.vocabulary
                /\ linkedin_tfidf_matrix' = fitted.matrix
                /\ csp_pc' = "linkedin_fitted"
                /\ UNCHANGED csp_error
    /\ UNCHANGED <<indeed_tfidf_matrix, top_skills_idx, top_skills_names, top_skills_values>>
    /\ UNCHANGED <<csp_tables, csp_csv>>
    /\ UNCHANGED not_csp

\* lines 52-53, 58-59: matrix.sum(axis=0).A1, the summed weight of each column
matrix_sums(matrix) ==
    IF matrix = <<>> THEN <<>>
    ELSE [i \in DOMAIN matrix[1] |-> SumSeq([d \in DOMAIN matrix |-> matrix[d][i]])]

\* lines 55-56: [get_feature_names_out()[i] for i in idx]; an index past the
\* end of the array raises IndexError
feature_names(vocabulary, idx) ==
    IF \E k \in DOMAIN idx : idx[k] \notin DOMAIN vocabulary
    THEN [raised |-> "IndexError", names |-> <<>>]
    ELSE [raised |-> "none", names |-> [k \in DOMAIN idx |-> vocabulary[idx[k]]]]

\* lines 52-59: the top columns of each matrix, their names looked up in the
\* vectorizer as it is now, and their summed weights
TopSkillsValues(sums, idx) == [k \in DOMAIN idx |-> sums[idx[k]]]

CspTopSkills ==
    /\ csp_pc = "linkedin_fitted"
    /\ \E indeed_sums \in {matrix_sums(indeed_tfidf_matrix)},
          linkedin_sums \in {matrix_sums(linkedin_tfidf_matrix)} :
         \E indeed_idx \in {top_idx(indeed_sums, tie_order)},
            linkedin_idx \in {top_idx(linkedin_sums, tie_order)} :
           \E indeed_names \in {feature_names(tfidf_vectorizer, indeed_idx)},
              linkedin_names \in {feature_names(tfidf_vectorizer, linkedin_idx)} :
             /\ top_skills_idx' = [indeed |-> indeed_idx, linkedin |-> linkedin_idx]
             /\ IF indeed_names.raised # "none"
                THEN /\ csp_error' = indeed_names.raised
                     /\ csp_pc' = "aborted"
                     /\ UNCHANGED <<top_skills_names, top_skills_values>>
                ELSE /\ top_skills_names' = [indeed   |-> indeed_names.names,
                                             linkedin |-> linkedin_names.names]
                     /\ top_skills_values' =
                          [indeed   |-> TopSkillsValues(indeed_sums, indeed_idx),
                           linkedin |-> TopSkillsValues(linkedin_sums, linkedin_idx)]
                     /\ csp_pc' = "ranked"
                     /\ UNCHANGED csp_error
    /\ UNCHANGED <<tfidf_vectorizer, indeed_tfidf_matrix, linkedin_tfidf_matrix>>
    /\ UNCHANGED <<csp_tables, csp_csv>>
    /\ UNCHANGED not_csp

\* lines 64-82: the plots, which change no table, then the LinkedIn table
\* written
CspSaveLinkedin ==
    /\ csp_pc = "ranked"
    /\ csp_csv' = [csp_csv EXCEPT !.linkedin_historical_cleaned = Written(csp_linkedin_data)]
    /\ csp_pc' = "done"
    /\ UNCHANGED <<csp_indeed_input, csp_linkedin_input, csp_indeed_data,
                   indeed_data_cleaned, csp_linkedin_data>>
    /\ UNCHANGED csp_tfidf
    /\ UNCHANGED not_csp

-----------------------------------------------------------------------------
(* most_common_job_titles.py and top_hiring_locations.py                   *)
(* (top_hiring_companies.py is most_common_job_titles.py on 'company').    *)

country_names == <<
    <<"u","n","i","t","e","d"," ","s","t","a","t","e","s">>,
    <<"c","a","n","a","d","a">>,
    <<"u","n","i","t","e","d"," ","k","i","n","g","d","o","m">>,
    <<"a","u","s","t","r","a","l","i","a">>,
    <<"g","e","r","m","a","n","y">>,
    <<"f","r","a","n","c","e">>,
    <<"i","n","d","i","a">>,
    <<"c","h","i","n","a">> >>

\* pd.concat of the three columns, in this order
concat_columns(indeed, historical, no_skills) == indeed \o historical \o no_skills

\* Series.str.lower() that leaves the text as it is
str_lower_AsIs(cell) == cell

\* Series.str.lower() on one cell: a missing cell stays missing
str_lower(cell) == IF cell = NaN THEN NaN ELSE Lower(cell)

\* Series.isin(country_names) on one cell
isin_country_names(cell) == \E k \in DOMAIN country_names : country_names[k] = cell

\* top_hiring_locations.py line 24
filter_locations(locations) ==
    SelectSeq(locations, LAMBDA cell : ~isin_country_names(str_lower(cell)))

\* value_counts() whose descending sort is left out
top_counts_Unsorted(vals, tie) == HeadRows(HashCounts(DropNa(vals)), HeadN)

\* most_common_job_titles.py line 22, top_hiring_locations.py line 27:
\* value_counts().head(10)
top_counts(vals, tie) == HeadRows(ValueCounts(vals, tie), HeadN)

MaxSourceRows == 2

\* twelve job titles, each once
ManyTitles == [i \in 1..12 |-> <<UpperChars[i]>>]

IndeedTitleColumns == SeqsUpTo({NaN, <<"A">>, <<"B">>}, MaxSourceRows) \cup {ManyTitles}

HistoricalTitleColumns == SeqsUpTo({<<"A">>, <<"C">>}, MaxSourceRows)

NoSkillsTitleColumns == SeqsUpTo({<<"B">>}, MaxSourceRows)

UnitedStates == <<"U","n","i","t","e","d"," ","S","t","a","t","e","s">>

UnitedStatesLower == <<"u","n","i","t","e","d"," ","s","t","a","t","e","s">>

Austin == <<"A","u","s","t","i","n">>

AustinUnitedStates == <<"A","u","s","t","i","n",","," ","U","n","i","t","e","d"," ","S","t","a","t","e","s">>

IndiaUpper == <<"I","N","D","I","A">>

IndeedLocationColumns == SeqsUpTo({NaN, UnitedStates, Austin}, MaxSourceRows)

HistoricalLocationColumns == SeqsUpTo({AustinUnitedStates, IndiaUpper}, MaxSourceRows)

NoSkillsLocationColumns == SeqsUpTo({UnitedStatesLower}, MaxSourceRows)

RankIdle ==
    /\ rank_pc = "idle"
    /\ rank_script = "none"
    /\ rank_indeed = <<>>
    /\ rank_historical = <<>>
    /\ rank_no_skills = <<>>
    /\ all_values = <<>>
    /\ filtered_locations = <<>>
    /\ top_values = <<>>

\* the three CSVs read and the column of each taken
RankInit ==
    /\ rank_pc = "loaded"
    /\ \/ /\ rank_script = "most_common_job_titles"
          /\ rank_indeed \in IndeedTitleColumns
          /\ rank_historical \in HistoricalTitleColumns
          /\ rank_no_skills \in NoSkillsTitleColumns
       \/ /\ rank_script = "top_hiring_locations"
          /\ rank_indeed \in IndeedLocationColumns
          /\ rank_historical \in HistoricalLocationColumns
          /\ rank_no_skills \in NoSkillsLocationColumns
    /\ all_values = <<>>
    /\ filtered_locations = <<>>
    /\ top_values = <<>>

\* most_common_job_titles.py line 19, top_hiring_locations.py line 18
RankConcat ==
    /\ rank_pc = "loaded"
    /\ all_values' = concat_columns(rank_indeed, rank_historical, rank_no_skills)
    /\ rank_pc' = "combined"
    /\ UNCHANGED <<tie_order, rank_script, rank_indeed, rank_historical, rank_no_skills,
                   filtered_locations, top_values>>
    /\ UNCHANGED not_rank

\* most_common_job_titles.py line 22
RankTopTitles ==
    /\ rank_pc = "combined"
    /\ rank_script = "most_common_job_titles"
    /\ top_values' = top_counts(all_values, tie_order)
    /\ rank_pc' = "done"
    /\ UNCHANGED <<tie_order, rank_script, rank_indeed, rank_historical, rank_no_skills,
                   all_values, filtered_locations>>
    /\ UNCHANGED not_rank

\* top_hiring_locations.py line 24
RankFilterLocations ==
    /\ rank_pc = "combined"
    /\ rank_script = "top_hiring_locations"
    /\ filtered_locations' = filter_locations(all_values)
    /\ rank_pc' = "filtered"
    /\ UNCHANGED <<tie_order, rank_script, rank_indeed, rank_historical, rank_no_skills,
                   all_values, top_values>>
    /\ UNCHANGED not_rank

\* top_hiring_locations.py line 27
RankTopLocations ==
    /\ rank_pc = "filtered"
    /\ top_values' = top_counts(filtered_locations, tie_order)
    /\ rank_pc' = "done"
    /\ UNCHANGED <<tie_order, rank_script, rank_indeed, rank_historical, rank_no_skills,
                   all_values, filtered_locations>>
    /\ UNCHANGED not_rank

-----------------------------------------------------------------------------
(* DashBoard.py: the handler of the 'Run selected scripts' button.         *)

SCRIPTS == <<"clean_linkedin", "clean_skills_plot", "most_common_job_titles",
             "skill_demand_evolution", "top_hiring_companies", "top_hiring_locations",
             "hiring_trends_overtime", "forecast_job_postings">>

\* what importing <script>.py and calling its main() can come to
ImportOutcomes == {"not_found", "exec_raises", "no_main", "main_raises", "main_returns"}

\* what running <script>.py with the Python executable can come to
SubprocessOutcomes == {"not_found", "exit_0", "exit_nonzero", "timeout"}

\* try_import_and_run that takes a module without main() for a success
try_import_and_run_NoMainOk(outcome) ==
    CASE outcome = "not_found"    -> [ok |-> FALSE, msg |-> "not found."]
      [] outcome = "exec_raises"  -> [ok |-> FALSE, msg |-> "Import failed"]
      [] outcome = "no_main"      -> [ok |-> TRUE,  msg |-> "Imported but no main() found."]
      [] outcome = "main_raises"  -> [ok |-> FALSE, msg |-> "Import failed"]
      [] outcome = "main_returns" -> [ok |-> TRUE,  msg |-> "Imported and executed main()"]

\* lines 63-79: (ok, message) of try_import_and_run
try_import_and_run(outcome) ==
    CASE outcome = "not_found"    -> [ok |-> FALSE, msg |-> "not found."]
      [] outcome = "exec_raises"  -> [ok |-> FALSE, msg |-> "Import failed"]
      [] outcome = "no_main"      -> [ok |-> FALSE, msg |-> "Imported but no main() found."]
      [] outcome = "main_raises"  -> [ok |-> FALSE, msg |-> "Import failed"]
      [] outcome = "main_returns" -> [ok |-> TRUE,  msg |-> "Imported and executed main()"]

\* lines 49-61: (success, output) of run_script_as_subprocess
run_script_as_subprocess(outcome) ==
    CASE outcome = "not_found"    -> [ok |-> FALSE, msg |-> "not found."]
      [] outcome = "exit_0"       -> [ok |-> TRUE,  msg |-> "stdout"]
      [] outcome = "exit_nonzero" -> [ok |-> FALSE, msg |-> "stdout ERR: stderr"]
      [] outcome = "timeout"      -> [ok |-> FALSE, msg |-> "timed out"]

\* line 72: spec.loader.exec_module(module) runs the top-level body of the
\* script, to its end or to the statement that raises
import_executes_body(outcome) ==
    outcome \in {"exec_raises", "no_main", "main_raises", "main_returns"}

\* line 56: the Python executable runs the script file
subprocess_executes_body(outcome) == outcome \in {"exit_0", "exit_nonzero", "timeout"}

MaxSelected == 2

NoResult == [ok |-> FALSE, msg |-> "no result"]

DashIdle ==
    /\ dash_pc = "idle"
    /\ selected = {}
    /\ dash_next = 1
    /\ import_result = NoResult
    /\ run_results = <<>>
    /\ shown = <<>>
    /\ dash_log = <<>>

\* line 130: the page is drawn and the checkboxes are set
DashInit ==
    /\ dash_pc = "sidebar"
    /\ selected \in {S \in SUBSET Range(SCRIPTS) : Cardinality(S) <= MaxSelected}
    /\ dash_next = 1
    /\ import_result = NoResult
    /\ run_results = <<>>
    /\ shown = <<>>
    /\ dash_log = <<>>

\* lines 138-140: the button is pressed
DashClickRun ==
    /\ dash_pc = "sidebar"
    /\ dash_pc' = "loop"
    /\ dash_next' = 1
    /\ run_results' = <<>>
    /\ UNCHANGED <<selected, import_result, shown, dash_log>>
    /\ UNCHANGED not_dash

\* lines 141-143: a script that is not chosen is passed over
DashSkip ==
    /\ dash_pc = "loop"
    /\ dash_next <= Len(SCRIPTS)
    /\ SCRIPTS[dash_next] \notin selected
    /\ dash_next' = dash_next + 1
    /\ UNCHANGED <<dash_pc, selected, import_result, run_results, shown, dash_log>>
    /\ UNCHANGED not_dash

\* line 145
DashTryImport ==
    /\ dash_pc = "loop"
    /\ dash_next <= Len(SCRIPTS)
    /\ SCRIPTS[dash_next] \in selected
    /\ \E outcome \in ImportOutcomes :
         /\ import_result' = try_import_and_run(outcome)
         /\ dash_log' = Append(dash_log, [script |-> SCRIPTS[dash_next], step |-> "import",
                                          outcome |-> outcome])
    /\ dash_pc' = "imported"
    /\ UNCHANGED <<selected, dash_next, run_results, shown>>
    /\ UNCHANGED not_dash

\* lines 146-149: the fallback
DashRunSubprocess ==
    /\ dash_pc = "imported"
    /\ ~import_result.ok
    /\ \E outcome \in SubprocessOutcomes :
         /\ run_results' = (SCRIPTS[dash_next] :> run_script_as_subprocess(outcome))
                              @@ run_results
         /\ dash_log' = Append(dash_log, [script |-> SCRIPTS[dash_next], step |-> "subprocess",
                                          outcome |-> outcome])
    /\ dash_pc' = "loop"
    /\ dash_next' = dash_next + 1
    /\ UNCHANGED <<selected, import_result, shown>>
    /\ UNCHANGED not_dash

\* lines 150-151
DashRecordImport ==
    /\ dash_pc = "imported"
    /\ import_result.ok
    /\ run_results' = (SCRIPTS[dash_next] :> [ok |-> TRUE, msg |-> import_result.msg])
                         @@ run_results
    /\ dash_pc' = "loop"
    /\ dash_next' = dash_next + 1
    /\ UNCHANGED <<selected, import_result, shown, dash_log>>
    /\ UNCHANGED not_dash

\* lines 152-161: every recorded result is reported
DashShowResults ==
    /\ dash_pc = "loop"
    /\ dash_next > Len(SCRIPTS)
    /\ shown' = [name \in DOMAIN run_results |->
                    IF run_results[name].ok THEN "success" ELSE "failed"]
    /\ dash_pc' = "done"
    /\ UNCHANGED <<selected, dash_next, import_result, run_results, dash_log>>
    /\ UNCHANGED not_dash

-----------------------------------------------------------------------------
(* Specifications: one program is run on the files it reads.               *)

InitSde == tie_order \in TieOrders /\ SdeInit /\ ClIdle /\ CspIdle /\ RankIdle /\ DashIdle

NextSde == SdeExtractSkills \/ SdeSkillTrends \/ SdeRisingSkills \/ SdeCleanLabels \/ SdeSave

\* skill_demand_evolution.py
SpecSde == InitSde /\ [][NextSde]_vars

InitClean ==
    /\ tie_order \in TieOrders
    /\ SdeIdle /\ RankIdle /\ DashIdle
    /\ \/ ClInit /\ CspIdle
       \/ ClIdle /\ CspInit

NextClean ==
    \/ ClExtractDate \/ ClDropNa \/ ClDropDuplicates \/ ClSave
    \/ CspFilterBlank \/ CspGroupIndeed \/ CspSaveIndeed \/ CspCleanLinkedin
    \/ CspFitIndeed \/ CspFitLinkedin \/ CspTopSkills \/ CspSaveLinkedin

\* the cleaning scripts: clean_linkedin.py or clean_skills_plot.py
SpecClean == InitClean /\ [][NextClean]_vars

InitRank ==
    /\ tie_order \in TieOrders
    /\ ClIdle /\ CspIdle /\ DashIdle
    /\ \/ SdeInit /\ RankIdle
       \/ SdeIdle /\ RankInit

NextRank ==
    \/ SdeExtractSkills
    \/ RankConcat \/ RankTopTitles \/ RankFilterLocations \/ RankTopLocations

\* the frequency rankings: extract_skills of skill_demand_evolution.py,
\* most_common_job_titles.py or top_hiring_locations.py
SpecRank == InitRank /\ [][NextRank]_vars

InitDash ==
    /\ tie_order = "first_seen"
    /\ SdeIdle /\ ClIdle /\ CspIdle /\ RankIdle /\ DashInit

NextDash ==
    \/ DashClickRun \/ DashSkip \/ DashTryImport \/ DashRunSubprocess \/ DashRecordImport
    \/ DashShowResults

\* DashBoard.py
SpecDash == InitDash /\ [][NextDash]_vars

-----------------------------------------------------------------------------
(* Properties of skill_demand_evolution                                    *)

Occurrences(seq, v) == Cardinality({i \in DOMAIN seq : seq[i] = v})

SdeCounted == sde_pc \in {"counted", "trended", "ranked", "labelled", "done"}

SdeTrended == sde_pc \in {"trended", "ranked", "labelled", "done"}

SdeLabelled == sde_pc \in {"labelled", "done"}

\* C1: skill_trends has exactly one row per skill token of the union of both
\* frequency tables; its counts are the token's counts in the LinkedIn and
\* Indeed tables (0 when absent); '% Change' is
\* (recent - historical) / (historical if historical != 0 else 1) * 100 and
\* its denominator is never zero; historical 0 and recent 5 gives 500, equal
\* counts give 0.
C1_PercentChange ==
    SdeTrended =>
        /\ {skill_trends[i].label : i \in DOMAIN skill_trends}
             = Labels(linkedin_skill_counts) \cup Labels(indeed_skill_counts)
        /\ \A i, j \in DOMAIN skill_trends :
             skill_trends[i].label = skill_trends[j].label => i = j
        /\ LET historical == all_skills(sde_linkedin_skills)
               recent     == all_skills(sde_indeed_skills)
           IN  \A i \in DOMAIN skill_trends :
             LET row == skill_trends[i]
                 h   == Occurrences(historical, row.label)
                 r   == Occurrences(recent, row.label)
                 d   == IF h # 0 THEN h ELSE 1
             IN  /\ row.historical = h
                 /\ row.recent = r
                 /\ row.change.den # 0
                 /\ row.change.num * d = (r - h) * 100 * row.change.den
                 /\ (h = 0 /\ r = 5) => row.change.num = 500 * row.change.den
                 /\ (h = r) => row.change.num = 0

\* C1 witness: a skill absent from the historical table with recent count 5,
\* next to a skill with equal non-zero counts
C1_Witness ==
    /\ SdeTrended
    /\ \E i \in DOMAIN skill_trends :
         /\ skill_trends[i].historical = 0
         /\ skill_trends[i].recent = 5
         /\ skill_trends[i].change = [num |-> 500, den |-> 1]
    /\ \E i \in DOMAIN skill_trends :
         /\ skill_trends[i].historical > 0
         /\ skill_trends[i].recent = skill_trends[i].historical
         /\ skill_trends[i].change.num = 0

IsCleanKey(k) ==
    /\ k # <<>>
    /\ Strip(k) = k
    /\ Lower(k) = k
    /\ \A t \in DOMAIN exclude_terms : ~Contains(Lower(k), exclude_terms[t])

\* the stripped, lowercased fields of a column that hold no exclusion term
KeptTokens(col) ==
    LET rows == DropNa(col)
    IN  {tok \in UNION {Range(skill_list(rows[i])) : i \in DOMAIN rows} : ~IsExcluded(tok)}

\* C6: every key of the frequency table returned by extract_skills is a
\* non-empty, trimmed, lowercased token holding no exclusion term, and every
\* token holding no exclusion term is counted.
C6_KeysNonEmptyFiltered ==
    SdeCounted =>
        /\ \A k \in Labels(indeed_skill_counts) \cup Labels(linkedin_skill_counts) :
             IsCleanKey(k)
        /\ Labels(indeed_skill_counts) = KeptTokens(sde_indeed_skills)
        /\ Labels(linkedin_skill_counts) = KeptTokens(sde_linkedin_skills)

\* what holds of the keys: all of C6 but the non-emptiness
KeysFilteredButMaybeEmpty ==
    SdeCounted =>
        /\ \A k \in Labels(indeed_skill_counts) \cup Labels(linkedin_skill_counts) :
             k # <<>> => IsCleanKey(k)
        /\ Labels(indeed_skill_counts) = KeptTokens(sde_indeed_skills)
        /\ Labels(linkedin_skill_counts) = KeptTokens(sde_linkedin_skills)

HasNoise(label) == Contains(label, Required) \/ Contains(label, MatchingQualification)

EndsWithNoise(label) == EndsWithPhrase(label, Required) \/ EndsWithPhrase(label, MatchingQualification)

\* rising_skills as line 38 left it, before the labels were rewritten
RisingBefore == make_rising_skills(skill_trends, tie_order)

SameNumbers(a, b) ==
    a.historical = b.historical /\ a.recent = b.recent /\ a.change = b.change

DistinctLabels(rows) == {rows[i].label : i \in DOMAIN rows}

\* C9 as stated: a noise phrase is removed only as the exact trailing phrase
\* (a label not ending in one is left unchanged), counts and '% Change' are
\* unchanged, and the table holds the same rows and as many distinct skills
\* as before.
C9_TrailingOnlyCosmetic ==
    SdeLabelled =>
        LET ranked == RisingBefore IN
            /\ Len(rising_skills) = Len(ranked)
            /\ \A i \in DOMAIN rising_skills :
                 /\ SameNumbers(rising_skills[i], ranked[i])
                 /\ ~EndsWithNoise(ranked[i].label)
                      => rising_skills[i].label = ranked[i].label
            /\ Cardinality(DistinctLabels(rising_skills))
                 = Cardinality(DistinctLabels(ranked))

\* C9 amended: a noise phrase is deleted wherever it stands in the label (a
\* label holding one, at its end or elsewhere, becomes shorter; a label
\* holding none is unchanged; a label that is a noise-free text followed by
\* one noise phrase becomes that text, trimmed); the number of rows and each
\* row's counts and '% Change' are unchanged.
C9_RemovedAnywhereNumbersKept ==
    SdeLabelled =>
        LET ranked == RisingBefore IN
            /\ Len(rising_skills) = Len(ranked)
            /\ \A i \in DOMAIN rising_skills :
                 LET before == ranked[i].label
                     after  == rising_skills[i].label
                 IN  /\ SameNumbers(rising_skills[i], ranked[i])
                     /\ ~HasNoise(before) => after = before
                     /\ HasNoise(before) => after # before /\ Len(after) < Len(before)
                     /\ \A p \in {Required, MatchingQualification} :
                          (/\ EndsWithPhrase(before, p)
                           /\ ~HasNoise(SubSeq(before, 1, Len(before) - Len(p))))
                          => after = Strip(SubSeq(before, 1, Len(before) - Len(p)))

\* C9 witness: a label with '(required)' in its middle was rewritten, and two
\* rows ended with the same label
C9_Witness ==
    /\ SdeLabelled
    /\ LET ranked == RisingBefore IN
        /\ \E i \in DOMAIN rising_skills :
             /\ Contains(ranked[i].label, Required)
             /\ ~EndsWithNoise(ranked[i].label)
             /\ rising_skills[i].label # ranked[i].label
        /\ \E i, j \in DOMAIN rising_skills :
             i # j /\ rising_skills[i].label = rising_skills[j].label

-----------------------------------------------------------------------------
(* Properties of clean_linkedin and clean_skills_plot                      *)

\* the 'datePosted' value of a context cell whose text parses to an object
\* holding that key, None for every other cell
ExpectedDate(cell) ==
    IF /\ cell.type = "str"
       /\ json_loads(cell.v).raised = "none"
       /\ json_loads(cell.v).value.type = "dict"
       /\ HasDatePosted(json_loads(cell.v).value)
    THEN DatePostedOf(json_loads(cell.v).value)
    ELSE None

\* C2: extract_date never raises, whatever the 'context' cell holds: it
\* returns the 'datePosted' value when the text parses to an object holding
\* that key and None for every other cell.
C2_ExtractDateNeverRaises ==
    /\ cl_error # "AttributeError"
    /\ cl_pc = "extracted" =>
         \A i \in DOMAIN cl_df : cl_df[i].datePosted = ExpectedDate(cl_input[i].context)

\* C3: every row written to linkedin_no_skills_cleaned.csv has a datePosted
\* that is a valid ISO-8601 date/time string.
C3_CleanedDatesValid ==
    cl_csv.state = "written" =>
        \A i \in DOMAIN cl_csv.rows : IsIsoDate(cl_csv.rows[i].datePosted)

CspGrouped == csp_pc \in {"grouped", "indeed_saved", "linkedin_cleaned", "done"}

\* the skill tokens of the rows of csp_indeed_data under one key, in row order
GroupTokens(key) ==
    LET grp == SelectSeq(csp_indeed_data, LAMBDA row : row.href = key)
    IN  Flatten([i \in DOMAIN grp |-> skill_list(grp[i].skills)])

\* C4: the cleaned Indeed table has exactly one row per distinct key, and the
\* row's skills are the skill tokens of the group's rows in first-seen order,
\* no token more than once.
C4_OneRowPerKeyTokenUnion ==
    CspGrouped =>
        /\ {indeed_data_cleaned[i].href : i \in DOMAIN indeed_data_cleaned}
             = {csp_indeed_data[i].href : i \in DOMAIN csp_indeed_data} \ {NaN}
        /\ \A i, j \in DOMAIN indeed_data_cleaned :
             indeed_data_cleaned[i].href = indeed_data_cleaned[j].href => i = j
        /\ \A i \in DOMAIN indeed_data_cleaned :
             skill_list(indeed_data_cleaned[i].skills)
               = Unique(GroupTokens(indeed_data_cleaned[i].href))

\* the row clean_linkedin.py writes for an input row
ClImage(row) ==
    [title |-> row.title, context |-> row.context,
     datePosted |-> extract_date(row.context).value]

\* the row clean_skills_plot.py writes for a LinkedIn input row
CspImage(row) == [row EXCEPT !.job_summary = IF @ = NaN THEN NoSummary ELSE @]

ClKept(row) == extract_date(row.context).value # None

CspKept(row) == row.job_title # NaN /\ row.company # NaN /\ row.job_skills # NaN

\* out holds one row per distinct row of rows: the image of each, as often as
\* distinct rows have that image
OneRowPerDistinct(out, rows, Image(_)) ==
    /\ Len(out) = Cardinality(rows)
    /\ \A r \in rows :
         Occurrences(out, Image(r)) = Cardinality({q \in rows : Image(q) = Image(r)})

\* C5 as stated: in the cleaned LinkedIn outputs, input rows identical in
\* every column collapse to one row and input rows that differ in a column
\* both remain.
C5_FullRowDedupAllRows ==
    /\ cl_pc = "done" => OneRowPerDistinct(cl_csv.rows, Range(cl_input), ClImage)
    /\ csp_pc = "done" =>
         OneRowPerDistinct(csp_csv.linkedin_historical_cleaned.rows,
                           Range(csp_linkedin_input), CspImage)

\* C5 amended: the same of the input rows that pass the script's
\* missing-value filter (a datePosted was extracted; job_title, company and
\* job_skills are present); the other rows are not in the output.
C5_FullRowDedupKeptRows ==
    /\ cl_pc = "done" =>
         OneRowPerDistinct(cl_csv.rows, {r \in Range(cl_input) : ClKept(r)}, ClImage)
    /\ csp_pc = "done" =>
         OneRowPerDistinct(csp_csv.linkedin_historical_cleaned.rows,
                           {r \in Range(csp_linkedin_input) : CspKept(r)}, CspImage)

\* C5 witness: clean_linkedin.py wrote one row for two identical input rows
C5_Witness ==
    /\ cl_pc = "done"
    /\ Len(cl_input) = 2
    /\ cl_input[1] = cl_input[2]
    /\ cl_csv = Written(<<ClImage(cl_input[1])>>)

\* C11: a cleaning script that ended with an exception has written none of
\* its output files in that run: the files of the previous run are untouched.
C11_AbortLeavesFilesUntouched ==
    /\ cl_pc = "aborted" => cl_csv = OldFile
    /\ csp_pc = "aborted" =>
         /\ csp_csv.indeed_webscrape_cleaned = OldFile
         /\ csp_csv.linkedin_historical_cleaned = OldFile

\* the position of term in vocabulary, 0 if it is not a term of it
TermIndex(vocabulary, term) ==
    IF \E i \in DOMAIN vocabulary : vocabulary[i] = term
    THEN CHOOSE i \in DOMAIN vocabulary : vocabulary[i] = term
    ELSE 0

\* names and values are a ranking of the corpus fitted as `fitted`: every
\* name is a term of its vocabulary, the value next to it is that term's
\* summed weight, and the values descend
RanksCorpus(fitted, sums, names, values) ==
    /\ Len(names) = Len(values)
    /\ \A k \in DOMAIN names :
         /\ TermIndex(fitted.vocabulary, names[k]) # 0
         /\ sums[TermIndex(fitted.vocabulary, names[k])] = values[k]
    /\ \A j, k \in DOMAIN values : j < k => values[j] >= values[k]

RanksOwnCorpus(fitted, names, values) ==
    RanksCorpus(fitted, matrix_sums(fitted.matrix), names, values)

\* C12: once the top skills are computed, the names reported for each corpus
\* are terms of the vocabulary fitted on that corpus, each next to its own
\* summed weight, in descending order of summed weight.
C12_NamesOfOwnCorpus ==
    csp_pc \in {"ranked", "done"} =>
        /\ RanksOwnCorpus(fit_transform(Column(indeed_data_cleaned, LAMBDA row : row.skills),
                                        tie_order),
                          top_skills_names.indeed, top_skills_values.indeed)
        /\ RanksOwnCorpus(fit_transform(Column(csp_linkedin_data, LAMBDA row : row.job_skills),
                                        tie_order),
                          top_skills_names.linkedin, top_skills_values.linkedin)

-----------------------------------------------------------------------------
(* Properties of the frequency rankings                                    *)

FirstPos(seq, v) == SetMin({i \in DOMAIN seq : seq[i] = v})

Smaller(a, b) == IF a < b THEN a ELSE b

\* result lists distinct values of vals with their counts, descending by
\* count, and is the first n entries of such a list of all values
RankedByCount(vals, result, n) ==
    LET d == DropNa(vals)
        listed == {result[i].value : i \in DOMAIN result}
    IN  /\ listed \subseteq Range(d)
        /\ Len(result) = Smaller(n, Cardinality(Range(d)))
        /\ \A i, j \in DOMAIN result : result[i].value = result[j].value => i = j
        /\ \A i \in DOMAIN result : result[i].count = Occurrences(d, result[i].value)
        /\ \A i, j \in DOMAIN result : i < j => result[i].count >= result[j].count
        /\ \A v \in Range(d) \ listed :
             \A i \in DOMAIN result : result[i].count >= Occurrences(d, v)

\* values with equal counts are in the order of their first occurrence, in
\* the list and across the cut
TiesFirstSeen(vals, result) ==
    LET d == DropNa(vals)
        listed == {result[i].value : i \in DOMAIN result}
    IN  /\ \A i, j \in DOMAIN result :
             (i < j /\ result[i].count = result[j].count)
               => FirstPos(d, result[i].value) < FirstPos(d, result[j].value)
        /\ \A v \in Range(d) \ listed :
             \A i \in DOMAIN result :
               result[i].count = Occurrences(d, v)
                 => FirstPos(d, result[i].value) < FirstPos(d, v)

\* the sequence a ranking script counts
RankedInput == IF rank_script = "top_hiring_locations" THEN filtered_locations ELSE all_values

NoCut(vals) == Len(vals) + 1

\* the part of C7 that holds whatever the order of ties: the ranking lists
\* the distinct values in descending order of their occurrence count over the
\* concatenation Indeed, LinkedIn-historical, LinkedIn-no-skills, and the cut
\* keeps the first 10 of that order.
C7_DescendingByCount ==
    /\ rank_pc \in {"combined", "filtered", "done"} =>
         all_values = rank_indeed \o rank_historical \o rank_no_skills
    /\ rank_pc = "done" => RankedByCount(RankedInput, top_values, HeadN)
    /\ SdeCounted =>
         /\ RankedByCount(all_skills(sde_indeed_skills), indeed_skill_counts,
                          NoCut(all_skills(sde_indeed_skills)))
         /\ RankedByCount(all_skills(sde_linkedin_skills), linkedin_skill_counts,
                          NoCut(all_skills(sde_linkedin_skills)))

\* C7 as stated: as above, and values with equal counts appear in the order
\* of their first occurrence.
C7_TiesInFirstSeenOrder ==
    /\ C7_DescendingByCount
    /\ rank_pc = "done" => TiesFirstSeen(RankedInput, top_values)
    /\ SdeCounted =>
         /\ TiesFirstSeen(all_skills(sde_indeed_skills), indeed_skill_counts)
         /\ TiesFirstSeen(all_skills(sde_linkedin_skills), linkedin_skill_counts)

\* C7's case: more than 10 distinct titles were ranked, the cut kept 10, and
\* two listed titles with equal counts are not in first-seen order
C7_Witness ==
    /\ rank_pc = "done"
    /\ rank_script = "most_common_job_titles"
    /\ Cardinality(Range(DropNa(all_values))) > HeadN
    /\ Len(top_values) = HeadN
    /\ top_values[1].count > top_values[2].count
    /\ ~TiesFirstSeen(all_values, top_values)

LocationsFiltered == rank_script = "top_hiring_locations" /\ rank_pc \in {"filtered", "done"}

\* the lowercased text is one of the country names
IsCountryName(cell) ==
    cell # NaN /\ \E k \in DOMAIN country_names : Lower(cell) = country_names[k]

\* C8: a combined location is removed exactly when its lowercased form is
\* one of the country names; every other value, one that only contains a
\* country name included, is kept as it was written and as often as it
\* occurred; ['United States', 'Austin', 'united states'] becomes ['Austin'].
C8_LocationFilterExact ==
    LocationsFiltered =>
        /\ filtered_locations = SelectSeq(all_values, LAMBDA cell : ~IsCountryName(cell))
        /\ \A cell \in Range(all_values) :
             Occurrences(filtered_locations, cell)
               = IF IsCountryName(cell) THEN 0 ELSE Occurrences(all_values, cell)
        /\ Occurrences(filtered_locations, AustinUnitedStates)
             = Occurrences(all_values, AustinUnitedStates)
        /\ all_values = <<UnitedStates, Austin, UnitedStatesLower>>
             => filtered_locations = <<Austin>>

\* C8 witness: ['United States', 'Austin', 'united states'] was filtered
C8_Witness ==
    /\ LocationsFiltered
    /\ all_values = <<UnitedStates, Austin, UnitedStatesLower>>
    /\ filtered_locations = <<Austin>>

-----------------------------------------------------------------------------
(* Properties of the dashboard launcher                                    *)

LogEntries(script, step) ==
    {i \in DOMAIN dash_log : dash_log[i].script = script /\ dash_log[i].step = step}

\* C10: only selected scripts are run; the import-and-main() attempt of a
\* script comes before its subprocess run, which happens exactly when the
\* attempt did not succeed; when the handler is done every selected script
\* has exactly one result, reported as success exactly when import plus
\* main() completed or the fallback subprocess exited with code 0.
C10_ImportThenFallback ==
    /\ \A i \in DOMAIN dash_log : dash_log[i].script \in selected
    /\ \A name \in Range(SCRIPTS) :
         /\ Cardinality(LogEntries(name, "import")) <= 1
         /\ Cardinality(LogEntries(name, "subprocess")) <= 1
         /\ \A j \in LogEntries(name, "subprocess") :
              \E i \in LogEntries(name, "import") :
                  i < j /\ dash_log[i].outcome # "main_returns"
         /\ name \in DOMAIN run_results =>
              /\ LogEntries(name, "import") # {}
              /\ LogEntries(name, "subprocess") = {}
                   <=> \E i \in LogEntries(name, "import") :
                          dash_log[i].outcome = "main_returns"
    /\ dash_pc = "done" =>
         /\ DOMAIN run_results = selected
         /\ DOMAIN shown = selected
         /\ \A name \in selected :
              shown[name] = "success"
                <=> \/ \E i \in LogEntries(name, "import") :
                          dash_log[i].outcome = "main_returns"
                    \/ \E j \in LogEntries(name, "subprocess") :
                          dash_log[j].outcome = "exit_0"

\* C10 witness: two scripts were run, one succeeded in process, the other
\* failed to import and succeeded as a subprocess
C10_Witness ==
    /\ dash_pc = "done"
    /\ Cardinality(selected) = 2
    /\ \E a, b \in selected :
         /\ a # b
         /\ LogEntries(a, "subprocess") = {}
         /\ shown[a] = "success"
         /\ \E i \in LogEntries(b, "import") : dash_log[i].outcome = "no_main"
         /\ \E j \in LogEntries(b, "subprocess") : dash_log[j].outcome = "exit_0"
         /\ shown[b] = "success"

\* the number of times the handler has started the top-level body of script
BodyRuns(script) ==
    Cardinality({i \in LogEntries(script, "import") :
                   import_executes_body(dash_log[i].outcome)})
    + Cardinality({j \in LogEntries(script, "subprocess") :
                     subprocess_executes_body(dash_log[j].outcome)})

\* C13: within one 'Run selected scripts' action the top-level body of each
\* script is executed at most once.
C13_BodyAtMostOnce == \A script \in Range(SCRIPTS) : BodyRuns(script) <= 1

=============================================================================
